---- MODULE Spec2Model ----
(***************************************************************************)
(* A model of the allocator and linear-directory core of ext4_rs           *)
(* (src/src/ext4/alloc.rs, src/src/ext4/dir.rs).                           *)
(*                                                                         *)
(* The disk is a record d with the superblock counters, the table of      *)
(* block group descriptors, the inode and block bitmaps, the inode table, *)
(* the data blocks, and a log of the block-device writes the current      *)
(* operation has issued.  Every function of the source is an operator     *)
(* from a disk (and its arguments) to a result [d, res, ret]; every       *)
(* action applies one handler to the current disk.                        *)
(*                                                                         *)
(* u32 counters are kept as integers modulo 2^32 by their signed          *)
(* representative: a negative value v stands for 2^32 + v.  A subtraction *)
(* underflows exactly when its left operand is 0, an increment overflows  *)
(* exactly when its operand is -1.  A build with overflow checks panics   *)
(* there, a build without them wraps; both outcomes are modelled.         *)
(***************************************************************************)
EXTENDS Integers, Sequences, FiniteSets, TLC

(* ------------------------------ bounds -------------------------------- *)
\* sb.block_group_count()
BlockGroupCount == 2
\* sb.inodes_per_group(), also inode_count_in_group(g) of every group
InodesPerGroup == 2
\* bits scanned in a block bitmap (8 * BLOCK_SIZE in the source, scaled)
BlocksPerGroup == 2
\* operations per run of the allocator
MaxOps == 2
\* BLOCK_SIZE in 4-byte words (1024 in the source, scaled)
BlockWords == 12
\* operations per run of the directory
MaxDirOps == 5
\* operations per run of create_inode, inode_append_block and free_inode
MaxFileOps == 4

Groups == 0 .. (BlockGroupCount - 1)
\* descriptor slots the code can touch: the groups and the slot after them
Slots == 0 .. BlockGroupCount
InodeIds == 1 .. (BlockGroupCount * InodesPerGroup)
SlotInodeIds == 1 .. ((BlockGroupCount + 1) * InodesPerGroup)
PBlockIds == 0 .. (BlocksPerGroup - 1)
EXT4_ROOT_INO == 2
None == 0 - 1

VARIABLES sb, bgs, inode_bitmap, block_bitmap, itable, blocks, wlog,
          bg_reads, dir, last, nops, halted

vars == <<sb, bgs, inode_bitmap, block_bitmap, itable, blocks, wlog,
          bg_reads, dir, last, nops, halted>>

(* ------------------------------ the disk ------------------------------ *)
Disk ==
    [sb |-> sb, bgs |-> bgs, inode_bitmap |-> inode_bitmap,
     block_bitmap |-> block_bitmap, itable |-> itable, blocks |-> blocks,
     wlog |-> <<>>, bg_reads |-> {}]

\* an all-zero inode slot
ZeroInode == [mode |-> "none", block_count |-> 0, size |-> 0,
              link_count |-> 0, blocks |-> <<>>]

\* Inode::default() with set_mode and extent_init
NewInode(is_dir) ==
    [mode |-> IF is_dir THEN "dir" ELSE "file", block_count |-> 0, size |-> 0,
     link_count |-> 0, blocks |-> <<>>]

InodeRef(id, inode) == [id |-> id, inode |-> inode]

\* F applied to the value of v, with v evaluated once
Bind(v, F(_)) == CHOOSE y \in {F(x) : x \in {v}} : TRUE

Ok(d, ret) == [d |-> d, res |-> "Ok", ret |-> ret]
Err(d, code) == [d |-> d, res |-> code, ret |-> None]
Panic(d) == [d |-> d, res |-> "panic", ret |-> None]

(* --------------------------- block device ----------------------------- *)
write_super_block(d, s) ==
    [d EXCEPT !.sb = s, !.wlog = Append(@, "sb")]

write_block_group_with_csum(d, bgid, desc) ==
    [d EXCEPT !.bgs[bgid] = desc, !.wlog = Append(@, "bg")]

write_inode_bitmap_block(d, bgid, bits) ==
    [d EXCEPT !.inode_bitmap[bgid] = bits, !.wlog = Append(@, "bitmap")]

write_block_bitmap_block(d, bgid, bits) ==
    [d EXCEPT !.block_bitmap[bgid] = bits, !.wlog = Append(@, "bitmap")]

\* write_inode_with_csum / write_inode_without_csum
write_inode(d, ref) ==
    [d EXCEPT !.itable[ref.id] = ref.inode, !.wlog = Append(@, "inode")]

\* write_block of a data block
write_block(d, pblock, block) ==
    [d EXCEPT !.blocks[pblock] = block, !.wlog = Append(@, "data")]

\* [0; BLOCK_SIZE]
ZeroBlock == [de |-> <<>>, csum |-> <<>>]

(* ------------------------------ bitmap -------------------------------- *)
\* index of the lowest clear bit in [start, end), or None
first_clear_bit(bits, start, end) ==
    IF \E k \in start .. (end - 1) : k \notin bits
    THEN CHOOSE k \in start .. (end - 1) :
             /\ k \notin bits
             /\ \A j \in start .. (k - 1) : j \in bits
    ELSE None

(* ---------------------------- superblock ------------------------------ *)
inode_count_in_group(bgid) == InodesPerGroup

bgid_of(inode_id) == (inode_id - 1) \div InodesPerGroup

(* ------------------------------ allocator ----------------------------- *)
\* alloc_block without the superblock update
alloc_block_no_sb(d, inode_ref, checks) ==
    LET bgid == bgid_of(inode_ref.id)
        bg == d.bgs[bgid]
        bitmap == d.block_bitmap[bgid]
        fblock == first_clear_bit(bitmap, 0, BlocksPerGroup)
        bitmap1 == bitmap \cup {fblock}
        bg1 == [bg EXCEPT !.block_bitmap_csum = bitmap1]
        d1 == write_block_bitmap_block(d, bgid, bitmap1)
        bg3 == [bg1 EXCEPT !.free_blocks_count = @ - 1]
        d3 == write_block_group_with_csum(d1, bgid, bg3)
    IN  IF fblock = None THEN Err(d, "ENOSPC")
        ELSE IF checks /\ bg1.free_blocks_count = 0 THEN Panic(d1)
        ELSE Ok(d3, fblock)

\* alloc_block that moves to the next group with a clear bit when the owner's
\* group is full
alloc_block_spill(d, inode_ref, checks) ==
    LET home == bgid_of(inode_ref.id)
        open == {g \in home .. (BlockGroupCount - 1) :
                     first_clear_bit(d.block_bitmap[g], 0, BlocksPerGroup)
                         # None}
        bgid == IF open = {} THEN home
                ELSE CHOOSE g \in open : \A h \in open : g <= h
        s == d.sb
        bg == d.bgs[bgid]
        bitmap == d.block_bitmap[bgid]
        fblock == first_clear_bit(bitmap, 0, BlocksPerGroup)
        bitmap1 == bitmap \cup {fblock}
        bg1 == [bg EXCEPT !.block_bitmap_csum = bitmap1]
        d1 == write_block_bitmap_block(d, bgid, bitmap1)
        s2 == [s EXCEPT !.free_blocks_count = @ - 1]
        d2 == write_super_block(d1, s2)
        bg3 == [bg1 EXCEPT !.free_blocks_count = @ - 1]
        d3 == write_block_group_with_csum(d2, bgid, bg3)
    IN  IF fblock = None THEN Err(d, "ENOSPC")
        ELSE IF checks /\ s.free_blocks_count = 0 THEN Panic(d1)
        ELSE IF checks /\ bg1.free_blocks_count = 0 THEN Panic(d2)
        ELSE Ok(d3, fblock)

\* alloc_block(inode): allocate a physical block in the owner's group.
\* checks: the build panics on integer overflow.
alloc_block(d, inode_ref, checks) ==
    LET bgid == bgid_of(inode_ref.id)
        s == d.sb
        bg == d.bgs[bgid]
        bitmap == d.block_bitmap[bgid]
        fblock == first_clear_bit(bitmap, 0, BlocksPerGroup)
        bitmap1 == bitmap \cup {fblock}
        bg1 == [bg EXCEPT !.block_bitmap_csum = bitmap1]
        d1 == write_block_bitmap_block(d, bgid, bitmap1)
        s2 == [s EXCEPT !.free_blocks_count = @ - 1]
        d2 == write_super_block(d1, s2)
        bg3 == [bg1 EXCEPT !.free_blocks_count = @ - 1]
        d3 == write_block_group_with_csum(d2, bgid, bg3)
    IN  IF fblock = None THEN Err(d, "ENOSPC")
        ELSE IF checks /\ s.free_blocks_count = 0 THEN Panic(d1)
        ELSE IF checks /\ bg1.free_blocks_count = 0 THEN Panic(d2)
        ELSE Ok(d3, fblock)

\* dealloc_block without the update of the group's free_blocks_count
dealloc_block_keeps_count(d, inode_ref, pblock, checks) ==
    LET bgid == bgid_of(inode_ref.id)
        s == d.sb
        bg == d.bgs[bgid]
        bitmap == d.block_bitmap[bgid]
        bitmap1 == bitmap \ {pblock}
        bg1 == [bg EXCEPT !.block_bitmap_csum = bitmap1]
        d1 == write_block_bitmap_block(d, bgid, bitmap1)
        s2 == [s EXCEPT !.free_blocks_count = @ + 1]
        d2 == write_super_block(d1, s2)
        d3 == write_block_group_with_csum(d2, bgid, bg1)
    IN  IF pblock \notin bitmap THEN Err(d, "EINVAL")
        ELSE IF checks /\ s.free_blocks_count = None THEN Panic(d1)
        ELSE Ok(d3, None)

\* dealloc_block without the test for a bit that is already clear
dealloc_block_unchecked(d, inode_ref, pblock, checks) ==
    LET bgid == bgid_of(inode_ref.id)
        s == d.sb
        bg == d.bgs[bgid]
        bitmap == d.block_bitmap[bgid]
        bitmap1 == bitmap \ {pblock}
        bg1 == [bg EXCEPT !.block_bitmap_csum = bitmap1]
        d1 == write_block_bitmap_block(d, bgid, bitmap1)
        s2 == [s EXCEPT !.free_blocks_count = @ + 1]
        d2 == write_super_block(d1, s2)
        bg3 == [bg1 EXCEPT !.free_blocks_count = @ + 1]
        d3 == write_block_group_with_csum(d2, bgid, bg3)
    IN  IF checks /\ s.free_blocks_count = None THEN Panic(d1)
        ELSE IF checks /\ bg1.free_blocks_count = None THEN Panic(d2)
        ELSE Ok(d3, None)

\* dealloc_block(inode, pblock): free a physical block of the owner's group.
dealloc_block(d, inode_ref, pblock, checks) ==
    LET bgid == bgid_of(inode_ref.id)
        s == d.sb
        bg == d.bgs[bgid]
        bitmap == d.block_bitmap[bgid]
        bitmap1 == bitmap \ {pblock}
        bg1 == [bg EXCEPT !.block_bitmap_csum = bitmap1]
        d1 == write_block_bitmap_block(d, bgid, bitmap1)
        s2 == [s EXCEPT !.free_blocks_count = @ + 1]
        d2 == write_super_block(d1, s2)
        bg3 == [bg1 EXCEPT !.free_blocks_count = @ + 1]
        d3 == write_block_group_with_csum(d2, bgid, bg3)
    IN  IF pblock \notin bitmap THEN Err(d, "EINVAL")
        ELSE IF checks /\ s.free_blocks_count = None THEN Panic(d1)
        ELSE IF checks /\ bg1.free_blocks_count = None THEN Panic(d2)
        ELSE Ok(d3, None)

\* the body of alloc_inode's loop numbering the inodes of a group from 0
alloc_inode_in_group_from_zero(d, is_dir, bgid, checks) ==
    LET s == d.sb
        bg == d.bgs[bgid]
        bitmap == d.inode_bitmap[bgid]
        inode_count == inode_count_in_group(bgid)
        idx_in_bg == first_clear_bit(bitmap, 0, inode_count)
        bitmap1 == bitmap \cup {idx_in_bg}
        bg1 == [bg EXCEPT !.inode_bitmap_csum = bitmap1]
        d1 == write_inode_bitmap_block(d, bgid, bitmap1)
        bg2 == [bg1 EXCEPT !.free_inodes_count = @ - 1]
        ovf_dirs == is_dir /\ bg2.used_dirs_count = None
        bg3 == IF is_dir THEN [bg2 EXCEPT !.used_dirs_count = @ + 1] ELSE bg2
        unused == bg3.itable_unused
        \* inode_count as u32 - unused, as u32
        ovf_free == unused < 0 \/ unused > inode_count
        free == inode_count - unused
        \* idx_in_bg >= free, unsigned: a wrapped free is above every index
        bg4 == IF free >= 0 /\ idx_in_bg >= free
               THEN [bg3 EXCEPT !.itable_unused = inode_count - (idx_in_bg + 1)]
               ELSE bg3
        d4 == write_block_group_with_csum(d1, bgid, bg4)
        s5 == [s EXCEPT !.free_inodes_count = @ - 1]
        d5 == write_super_block(d4, s5)
        inode_id == bgid * InodesPerGroup + idx_in_bg
    IN  IF idx_in_bg = None THEN Err(d, "ENOSPC")
        ELSE IF checks /\ (ovf_dirs \/ ovf_free) THEN Panic(d1)
        ELSE IF checks /\ s.free_inodes_count = 0 THEN Panic(d4)
        ELSE Ok(d5, inode_id)

\* the body of alloc_inode's loop for a group with free_inodes_count # 0
alloc_inode_in_group(d, is_dir, bgid, checks) ==
    LET s == d.sb
        bg == d.bgs[bgid]
        bitmap == d.inode_bitmap[bgid]
        inode_count == inode_count_in_group(bgid)
        idx_in_bg == first_clear_bit(bitmap, 0, inode_count)
        bitmap1 == bitmap \cup {idx_in_bg}
        bg1 == [bg EXCEPT !.inode_bitmap_csum = bitmap1]
        d1 == write_inode_bitmap_block(d, bgid, bitmap1)
        bg2 == [bg1 EXCEPT !.free_inodes_count = @ - 1]
        ovf_dirs == is_dir /\ bg2.used_dirs_count = None
        bg3 == IF is_dir THEN [bg2 EXCEPT !.used_dirs_count = @ + 1] ELSE bg2
        unused == bg3.itable_unused
        \* inode_count as u32 - unused, as u32
        ovf_free == unused < 0 \/ unused > inode_count
        free == inode_count - unused
        \* idx_in_bg >= free, unsigned: a wrapped free is above every index
        bg4 == IF free >= 0 /\ idx_in_bg >= free
               THEN [bg3 EXCEPT !.itable_unused = inode_count - (idx_in_bg + 1)]
               ELSE bg3
        d4 == write_block_group_with_csum(d1, bgid, bg4)
        s5 == [s EXCEPT !.free_inodes_count = @ - 1]
        d5 == write_super_block(d4, s5)
        inode_id == bgid * InodesPerGroup + (idx_in_bg + 1)
    IN  IF idx_in_bg = None THEN Err(d, "ENOSPC")
        ELSE IF checks /\ (ovf_dirs \/ ovf_free) THEN Panic(d1)
        ELSE IF checks /\ s.free_inodes_count = 0 THEN Panic(d4)
        ELSE Ok(d5, inode_id)

\* alloc_inode's loop, from group bgid on: while bgid <= bg_count
RECURSIVE alloc_inode_from(_, _, _, _)
alloc_inode_from(d, is_dir, bgid, checks) ==
    IF bgid <= BlockGroupCount
    THEN LET dr == [d EXCEPT !.bg_reads = @ \cup {bgid}]
         IN  IF dr.bgs[bgid].free_inodes_count = 0
             THEN alloc_inode_from(dr, is_dir, bgid + 1, checks)
             ELSE alloc_inode_in_group(dr, is_dir, bgid, checks)
    ELSE Err(d, "ENOSPC")

\* alloc_inode with the scan begun at group 1
alloc_inode_from_second(d, is_dir, checks) ==
    alloc_inode_from(d, is_dir, 1, checks)

\* alloc_inode(is_dir): allocate an inode, returning its number
alloc_inode(d, is_dir, checks) == alloc_inode_from(d, is_dir, 0, checks)

\* dealloc_inode(inode_ref): free an inode
dealloc_inode(d, inode_ref, checks) ==
    LET s == d.sb
        bgid == bgid_of(inode_ref.id)
        idx_in_bg == (inode_ref.id - 1) % InodesPerGroup
        dr == [d EXCEPT !.bg_reads = @ \cup {bgid}]
        bg == dr.bgs[bgid]
        bitmap == dr.inode_bitmap[bgid]
        bitmap1 == bitmap \ {idx_in_bg}
        bg1 == [bg EXCEPT !.inode_bitmap_csum = bitmap1]
        d1 == write_inode_bitmap_block(dr, bgid, bitmap1)
        ovf_free == bg1.free_inodes_count = None
        bg2 == [bg1 EXCEPT !.free_inodes_count = @ + 1]
        is_dir == inode_ref.inode.mode = "dir"
        ovf_dirs == is_dir /\ bg2.used_dirs_count = 0
        bg3 == IF is_dir THEN [bg2 EXCEPT !.used_dirs_count = @ - 1] ELSE bg2
        ovf_unused == bg3.itable_unused = None
        bg4 == [bg3 EXCEPT !.itable_unused = @ + 1]
        d4 == write_block_group_with_csum(d1, bgid, bg4)
        s5 == [s EXCEPT !.free_inodes_count = @ - 1]
        d5 == write_super_block(d4, s5)
    IN  IF idx_in_bg \notin bitmap THEN Err(dr, "EINVAL")
        ELSE IF checks /\ (ovf_free \/ ovf_dirs \/ ovf_unused) THEN Panic(d1)
        ELSE IF checks /\ s.free_inodes_count = 0 THEN Panic(d4)
        ELSE Ok(d5, None)

(* ------------------------------- facade ------------------------------- *)
OkRef(d, ret, ref) == [d |-> d, res |-> "Ok", ret |-> ret, ref |-> ref]
Fail(r, ref) == [d |-> r.d, res |-> r.res, ret |-> None, ref |-> ref]

\* create_inode(mode)
create_inode(d, is_dir, checks) ==
    Bind(alloc_inode(d, is_dir, checks), LAMBDA r :
        LET inode_ref == InodeRef(r.ret, NewInode(is_dir))
        IN  IF r.res # "Ok" THEN Fail(r, InodeRef(0, ZeroInode))
            ELSE OkRef(write_inode(r.d, inode_ref), r.ret, inode_ref))

\* free_inode's first loop going on to the next block when a dealloc_block
\* fails
RECURSIVE free_data_blocks_go_on(_, _, _, _, _)
free_data_blocks_go_on(d, inode_ref, pblocks, i, checks) ==
    IF i > Len(pblocks) THEN OkRef(d, None, inode_ref)
    ELSE Bind(dealloc_block(d, inode_ref, pblocks[i], checks), LAMBDA r :
             IF r.res = "panic" THEN Fail(r, inode_ref)
             ELSE IF r.res # "Ok"
             THEN free_data_blocks_go_on(d, inode_ref, pblocks, i + 1, checks)
             ELSE IF checks /\ inode_ref.inode.block_count = 0
                  THEN Fail(Panic(r.d), inode_ref)
             ELSE Bind(write_block(r.d, pblocks[i], ZeroBlock), LAMBDA d1 :
                      free_data_blocks_go_on(
                          d1, [inode_ref EXCEPT !.inode.block_count = @ - 1],
                          pblocks, i + 1, checks)))

\* free_inode's first loop over pblocks[i ..], the data blocks of the inode
RECURSIVE free_data_blocks(_, _, _, _, _)
free_data_blocks(d, inode_ref, pblocks, i, checks) ==
    IF i > Len(pblocks) THEN OkRef(d, None, inode_ref)
    ELSE Bind(dealloc_block(d, inode_ref, pblocks[i], checks), LAMBDA r :
             IF r.res # "Ok" THEN Fail(r, inode_ref)
             ELSE IF checks /\ inode_ref.inode.block_count = 0
                  THEN Fail(Panic(r.d), inode_ref)
             ELSE Bind(write_block(r.d, pblocks[i], ZeroBlock), LAMBDA d1 :
                      free_data_blocks(
                          d1, [inode_ref EXCEPT !.inode.block_count = @ - 1],
                          pblocks, i + 1, checks)))

\* extent_all_data_blocks(inode): the physical blocks the extents map
extent_all_data_blocks(inode_ref) == inode_ref.inode.blocks

\* extent_all_tree_blocks(inode): the blocks of the extent tree below the
\* root; the extents of an inode of this size all lie in the root
extent_all_tree_blocks(inode_ref) == <<>>

\* free_inode's second loop over pblocks[i ..], the tree blocks of the inode
RECURSIVE free_tree_blocks(_, _, _, _, _)
free_tree_blocks(d, inode_ref, pblocks, i, checks) ==
    IF i > Len(pblocks) THEN OkRef(d, None, inode_ref)
    ELSE Bind(dealloc_block(d, inode_ref, pblocks[i], checks), LAMBDA r :
             IF r.res # "Ok" THEN Fail(r, inode_ref)
             ELSE Bind(write_block(r.d, pblocks[i], ZeroBlock), LAMBDA d1 :
                      free_tree_blocks(d1, inode_ref, pblocks, i + 1, checks)))

\* free_inode(inode)
free_inode(d, inode_ref, checks) ==
    Bind(free_data_blocks(d, inode_ref, extent_all_data_blocks(inode_ref), 1,
                          checks), LAMBDA r1 :
        IF r1.res # "Ok" THEN r1
        ELSE Bind(free_tree_blocks(r1.d, r1.ref,
                                   extent_all_tree_blocks(r1.ref), 1, checks),
                  LAMBDA rt :
        IF rt.res # "Ok" THEN rt
        ELSE Bind(dealloc_inode(rt.d, rt.ref, checks), LAMBDA r2 :
                 LET zeroed == InodeRef(inode_ref.id, ZeroInode)
                 IN  IF r2.res # "Ok" THEN Fail(r2, rt.ref)
                     ELSE OkRef(write_inode(r2.d, zeroed), None, zeroed))))

(* ------------------------------ extents ------------------------------- *)
\* extent_query(inode, iblock): the physical block of a logical block
extent_query(d, inode_ref, iblock) ==
    IF iblock < Len(inode_ref.inode.blocks)
    THEN Ok(d, inode_ref.inode.blocks[iblock + 1])
    ELSE Err(d, "ENOENT")

\* extent_query_or_create(inode, iblock, 1): on a miss, allocate a block
\* with alloc_block, map it as the next leaf and rewrite the inode
extent_query_or_create(d, inode_ref, iblock, checks) ==
    Bind(extent_query(d, inode_ref, iblock), LAMBDA q :
        IF q.res = "Ok" THEN OkRef(d, q.ret, inode_ref)
        ELSE Bind(alloc_block(d, inode_ref, checks), LAMBDA r :
                 LET ref1 == [inode_ref EXCEPT !.inode.blocks = Append(@, r.ret)]
                 IN  IF r.res # "Ok" THEN Fail(r, inode_ref)
                     ELSE OkRef(write_inode(r.d, ref1), r.ret, ref1)))

\* inode_append_block that returns the block count after the append
inode_append_block_after(d, inode_ref, checks) ==
    Bind(inode_ref.inode.block_count, LAMBDA iblock :
        Bind(extent_query_or_create(d, inode_ref, iblock, checks), LAMBDA r :
            LET ref1 == [r.ref EXCEPT !.inode.block_count = @ + 1]
            IN  IF r.res # "Ok" THEN r @@ [iblock |-> iblock]
                ELSE OkRef(write_inode(r.d, ref1), r.ret, ref1)
                         @@ [iblock |-> ref1.inode.block_count]))

\* inode_append_block(inode): (logical block id, physical block id);
\* ret is the physical block, iblock the logical one
inode_append_block(d, inode_ref, checks) ==
    Bind(inode_ref.inode.block_count, LAMBDA iblock :
        Bind(extent_query_or_create(d, inode_ref, iblock, checks), LAMBDA r :
            LET ref1 == [r.ref EXCEPT !.inode.block_count = @ + 1]
            IN  IF r.res # "Ok" THEN r @@ [iblock |-> iblock]
                ELSE OkRef(write_inode(r.d, ref1), r.ret, ref1)
                         @@ [iblock |-> iblock]))

(* ----------------------------- directory ------------------------------ *)
BLOCK_SIZE == 4 * BlockWords
\* size_of::<DirEntryTail>()
TailSize == 12
TailOffset == BLOCK_SIZE - TailSize
\* the file-type byte of a tail
TailMagic == 222
U16 == 65536

align4(n) == ((n + 3) \div 4) * 4

\* DirEntry::required_size(name_len)
required_size(name_len) == 8 + align4(name_len)

file_type(inode) ==
    IF inode.mode = "dir" THEN 2 ELSE IF inode.mode = "file" THEN 1 ELSE 0

\* DirEntry::new(inode, rec_len, name, file_type)
DirEntry(inode, rec_len, name, ft) ==
    [inode |-> inode, rec_len |-> rec_len, name |-> name, file_type |-> ft]

\* the bytes of a zeroed region read as a DirEntry
ZeroEntry == DirEntry(0, 0, "", 0)

\* DirEntryTail::new() as the 8 header bytes a DirEntry read sees:
\* reserved_zero1, rec_len, reserved_zero2, reserved_ft
NewTail == DirEntry(0, TailSize, "", TailMagic)

\* Ext4DirEntryTail::from(data, blocksize): the tail, when it is one
Ext4DirEntryTail_from(block) ==
    LET t == IF TailOffset \in DOMAIN block.de THEN block.de[TailOffset]
             ELSE ZeroEntry
    IN  IF t.inode # 0 \/ Len(t.name) # 0 THEN None
        ELSE IF t.rec_len # TailSize THEN None
        ELSE IF t.file_type # TailMagic THEN None
        ELSE TailOffset

\* block.read_offset_as::<DirEntry>(offset)
read_offset_as(block, offset) ==
    IF offset \in DOMAIN block.de THEN block.de[offset] ELSE ZeroEntry

\* block.write_offset_as(offset, &de)
write_offset_as(block, offset, de) ==
    [block EXCEPT !.de = (offset :> de) @@ block.de]

unused(de) == de.inode = 0
compare_name(de, name) == de.name = name
used_size(de) == required_size(Len(de.name))

\* the bytes of the block before the tail
EntryBytes(block) ==
    [o \in {x \in DOMAIN block.de : x < TailOffset} |-> block.de[o]]

\* tail.set_csum(uuid, ino, generation, block): the keyed checksum of the
\* block's entry bytes, kept as the data it is computed from
dir_csum(ino, block) == <<ino, EntryBytes(block)>>

set_csum(block, ino) == [block EXCEPT !.csum = dir_csum(ino, block)]

\* find_entry_in_block(block, name) from offset on: the offset of the first
\* live entry of that name, None at the end of the block; Hang when the
\* walk meets rec_len 0 and never ends
Hang == 0 - 2

\* find_entry_in_block without the test for an unused entry
RECURSIVE find_entry_in_block_any(_, _, _)
find_entry_in_block_any(block, name, offset) ==
    IF offset < BLOCK_SIZE
    THEN LET de == read_offset_as(block, offset)
         IN  IF compare_name(de, name) THEN offset
             ELSE IF de.rec_len = 0 THEN Hang
             ELSE find_entry_in_block_any(block, name, offset + de.rec_len)
    ELSE None

RECURSIVE find_entry_in_block(_, _, _)
find_entry_in_block(block, name, offset) ==
    IF offset < BLOCK_SIZE
    THEN LET de == read_offset_as(block, offset)
         IN  IF ~unused(de) /\ compare_name(de, name) THEN offset
             ELSE IF de.rec_len = 0 THEN Hang
             ELSE find_entry_in_block(block, name, offset + de.rec_len)
    ELSE None

\* remove_entry_from_block without the write of the entry back to the block
RECURSIVE remove_entry_from_block_no_write(_, _, _)
remove_entry_from_block_no_write(block, name, offset) ==
    IF offset < BLOCK_SIZE
    THEN LET de == read_offset_as(block, offset)
         IN  IF ~unused(de) /\ compare_name(de, name)
             THEN [found |-> TRUE, hang |-> FALSE, block |-> block]
             ELSE IF de.rec_len = 0
             THEN [found |-> FALSE, hang |-> TRUE, block |-> block]
             ELSE remove_entry_from_block_no_write(block, name,
                                                   offset + de.rec_len)
    ELSE [found |-> FALSE, hang |-> FALSE, block |-> block]

\* remove_entry_from_block that clears the name of the entry with its inode
RECURSIVE remove_entry_from_block_wipe(_, _, _)
remove_entry_from_block_wipe(block, name, offset) ==
    IF offset < BLOCK_SIZE
    THEN LET de == read_offset_as(block, offset)
         IN  IF ~unused(de) /\ compare_name(de, name)
             THEN [found |-> TRUE, hang |-> FALSE,
                   block |-> write_offset_as(
                                 block, offset,
                                 [de EXCEPT !.inode = 0, !.name = ""])]
             ELSE IF de.rec_len = 0
             THEN [found |-> FALSE, hang |-> TRUE, block |-> block]
             ELSE remove_entry_from_block_wipe(block, name,
                                               offset + de.rec_len)
    ELSE [found |-> FALSE, hang |-> FALSE, block |-> block]

\* remove_entry_from_block(block, name) from offset on: [found, hang, block]
RECURSIVE remove_entry_from_block(_, _, _)
remove_entry_from_block(block, name, offset) ==
    IF offset < BLOCK_SIZE
    THEN LET de == read_offset_as(block, offset)
         IN  IF ~unused(de) /\ compare_name(de, name)
             THEN [found |-> TRUE, hang |-> FALSE,
                   block |-> write_offset_as(block, offset,
                                             [de EXCEPT !.inode = 0])]
             ELSE IF de.rec_len = 0
             THEN [found |-> FALSE, hang |-> TRUE, block |-> block]
             ELSE remove_entry_from_block(block, name, offset + de.rec_len)
    ELSE [found |-> FALSE, hang |-> FALSE, block |-> block]

\* dir_find_entry's loop from logical block iblock on
RECURSIVE dir_find_entry_from(_, _, _, _)
dir_find_entry_from(d, dir_ref, name, iblock) ==
    IF iblock < dir_ref.inode.block_count
    THEN Bind(extent_query(d, dir_ref, iblock), LAMBDA q :
             IF q.res # "Ok" THEN q
             ELSE Bind(find_entry_in_block(d.blocks[q.ret], name, 0),
                       LAMBDA off :
                      IF off = Hang THEN Err(d, "hang")
                      ELSE IF off # None
                      THEN Ok(d, read_offset_as(d.blocks[q.ret], off).inode)
                               @@ [iblock |-> iblock, offset |-> off]
                      ELSE dir_find_entry_from(d, dir_ref, name, iblock + 1)))
    ELSE Err(d, "ENOENT")

\* dir_find_entry with the walk begun at the second block
dir_find_entry_from_second(d, dir_ref, name) ==
    dir_find_entry_from(d, dir_ref, name, 1)

\* dir_find_entry(dir, name): ret is the inode number of the entry found
dir_find_entry(d, dir_ref, name) == dir_find_entry_from(d, dir_ref, name, 0)

\* dir_remove_entry's loop from logical block iblock on
RECURSIVE dir_remove_entry_from(_, _, _, _)
dir_remove_entry_from(d, dir_ref, name, iblock) ==
    IF iblock < dir_ref.inode.block_count
    THEN Bind(extent_query(d, dir_ref, iblock), LAMBDA q :
             IF q.res # "Ok" THEN Panic(d)
             ELSE Bind(remove_entry_from_block(d.blocks[q.ret], name, 0),
                       LAMBDA rm :
                      IF rm.hang THEN Err(d, "hang")
                      ELSE IF rm.found
                      THEN Ok(write_block(d, q.ret, rm.block), None)
                      ELSE dir_remove_entry_from(d, dir_ref, name, iblock + 1)))
    ELSE Err(d, "ENOENT")

\* dir_remove_entry(dir, name)
dir_remove_entry(d, dir_ref, name) ==
    dir_remove_entry_from(d, dir_ref, name, 0)

\* get_all_entries_from_block(block, entries) from offset on: [hang, entries]
RECURSIVE get_all_entries_from_block(_, _, _)
get_all_entries_from_block(block, entries, offset) ==
    IF offset < BLOCK_SIZE
    THEN LET de == read_offset_as(block, offset)
             entries1 == IF ~unused(de) THEN Append(entries, de) ELSE entries
         IN  IF de.rec_len = 0 THEN [hang |-> TRUE, entries |-> entries1]
             ELSE get_all_entries_from_block(block, entries1,
                                             offset + de.rec_len)
    ELSE [hang |-> FALSE, entries |-> entries]

\* dir_get_all_entries's loop from logical block iblock on
RECURSIVE dir_get_all_entries_from(_, _, _, _)
dir_get_all_entries_from(d, dir_ref, entries, iblock) ==
    IF iblock < dir_ref.inode.block_count
    THEN Bind(extent_query(d, dir_ref, iblock), LAMBDA q :
             IF q.res # "Ok" THEN Panic(d)
             ELSE Bind(get_all_entries_from_block(d.blocks[q.ret], entries, 0),
                       LAMBDA g :
                      IF g.hang THEN Err(d, "hang")
                      ELSE dir_get_all_entries_from(d, dir_ref, g.entries,
                                                    iblock + 1)))
    ELSE Ok(d, entries)

\* dir_get_all_entries(dir): ret is the sequence of the live entries
dir_get_all_entries(d, dir_ref) == dir_get_all_entries_from(d, dir_ref, <<>>, 0)

\* insert_entry_to_new_block with the entry spanning the whole block
insert_entry_to_new_block_full(d, dir_ref, child, name, fblock) ==
    LET rec_len == BLOCK_SIZE
        new_entry == DirEntry(child.id, rec_len, name, file_type(child.inode))
        blk1 == write_offset_as(d.blocks[fblock], 0, new_entry)
        blk2 == set_csum(blk1, dir_ref.id)
        blk3 == write_offset_as(blk2, TailOffset, NewTail)
    IN  write_block(d, fblock, blk3)

\* insert_entry_to_new_block without the tail behind the entry
insert_entry_to_new_block_no_tail(d, dir_ref, child, name, fblock) ==
    LET rec_len == BLOCK_SIZE - TailSize
        new_entry == DirEntry(child.id, rec_len, name, file_type(child.inode))
        blk1 == write_offset_as(d.blocks[fblock], 0, new_entry)
        blk2 == set_csum(blk1, dir_ref.id)
    IN  write_block(d, fblock, blk2)

\* insert_entry_to_new_block(dir, child, name, dst_blk)
insert_entry_to_new_block(d, dir_ref, child, name, fblock) ==
    LET rec_len == BLOCK_SIZE - TailSize
        new_entry == DirEntry(child.id, rec_len, name, file_type(child.inode))
        blk1 == write_offset_as(d.blocks[fblock], 0, new_entry)
        blk2 == set_csum(blk1, dir_ref.id)
        blk3 == write_offset_as(blk2, TailOffset, NewTail)
    IN  write_block(d, fblock, blk3)

\* insert_entry_to_old_block giving the new entry the size it needs instead
\* of the rest of the split record
RECURSIVE insert_entry_to_old_block_tight(_, _, _, _, _, _, _)
insert_entry_to_old_block_tight(d, dir_ref, child, name, fblock, offset, checks) ==
    IF offset < BLOCK_SIZE
    THEN LET blk == d.blocks[fblock]
             required == required_size(Len(name))
             de == read_offset_as(blk, offset)
             rec_len == de.rec_len
             used == used_size(de)
             free_size == rec_len - used
             de1 == [de EXCEPT !.rec_len = used % U16]
             blk1 == write_offset_as(blk, offset, de1)
             new_entry == DirEntry(child.id, required % U16, name,
                                   file_type(child.inode))
             blk2 == write_offset_as(blk1, offset + used, new_entry)
             blk3 == set_csum(blk2, dir_ref.id)
         IN  IF free_size < 0 /\ checks
             THEN [ok |-> FALSE, panic |-> TRUE, d |-> d]
             ELSE IF free_size >= 0 /\ free_size < required
             THEN insert_entry_to_old_block_tight(d, dir_ref, child, name,
                                                  fblock, offset + rec_len,
                                                  checks)
             ELSE [ok |-> TRUE, panic |-> FALSE,
                   d |-> write_block(d, fblock, blk3)]
    ELSE [ok |-> FALSE, panic |-> FALSE, d |-> d]

\* insert_entry_to_old_block(dir, child, name, dst_blk) from offset on:
\* [ok, panic, d]
RECURSIVE insert_entry_to_old_block(_, _, _, _, _, _, _)
insert_entry_to_old_block(d, dir_ref, child, name, fblock, offset, checks) ==
    IF offset < BLOCK_SIZE
    THEN LET blk == d.blocks[fblock]
             required == required_size(Len(name))
             de == read_offset_as(blk, offset)
             rec_len == de.rec_len
             used == used_size(de)
             \* rec_len - used_size as usize: negative when it wrapped,
             \* and then above every required size
             free_size == rec_len - used
             de1 == [de EXCEPT !.rec_len = used % U16]
             blk1 == write_offset_as(blk, offset, de1)
             new_entry == DirEntry(child.id, free_size % U16, name,
                                   file_type(child.inode))
             blk2 == write_offset_as(blk1, offset + used, new_entry)
             blk3 == set_csum(blk2, dir_ref.id)
         IN  IF free_size < 0 /\ checks
             THEN [ok |-> FALSE, panic |-> TRUE, d |-> d]
             ELSE IF free_size >= 0 /\ free_size < required
             THEN insert_entry_to_old_block(d, dir_ref, child, name, fblock,
                                            offset + rec_len, checks)
             ELSE [ok |-> TRUE, panic |-> FALSE,
                   d |-> write_block(d, fblock, blk3)]
    ELSE [ok |-> FALSE, panic |-> FALSE, d |-> d]

\* dir_add_entry's loop and tail without the update of the directory size
RECURSIVE dir_add_entry_from_no_size(_, _, _, _, _, _)
dir_add_entry_from_no_size(d, dir_ref, child, name, iblock, checks) ==
    IF iblock < dir_ref.inode.block_count
    THEN Bind(extent_query(d, dir_ref, iblock), LAMBDA q :
             IF q.res # "Ok" THEN Fail(Panic(d), dir_ref)
             ELSE Bind(insert_entry_to_old_block(d, dir_ref, child, name,
                                                 q.ret, 0, checks),
                       LAMBDA ins :
                      IF ins.panic THEN Fail(Panic(ins.d), dir_ref)
                      ELSE IF ins.ok THEN OkRef(ins.d, None, dir_ref)
                      ELSE dir_add_entry_from_no_size(d, dir_ref, child, name,
                                                      iblock + 1, checks)))
    ELSE Bind(inode_append_block(d, dir_ref, checks), LAMBDA a :
             IF a.res # "Ok" THEN Fail(a, a.ref)
             ELSE OkRef(insert_entry_to_new_block(a.d, a.ref, child, name,
                                                  a.ret),
                        None, a.ref))

\* dir_add_entry's first loop, from logical block iblock on, and its tail
RECURSIVE dir_add_entry_from(_, _, _, _, _, _)
dir_add_entry_from(d, dir_ref, child, name, iblock, checks) ==
    IF iblock < dir_ref.inode.block_count
    THEN Bind(extent_query(d, dir_ref, iblock), LAMBDA q :
             IF q.res # "Ok" THEN Fail(Panic(d), dir_ref)
             ELSE Bind(insert_entry_to_old_block(d, dir_ref, child, name,
                                                 q.ret, 0, checks),
                       LAMBDA ins :
                      IF ins.panic THEN Fail(Panic(ins.d), dir_ref)
                      ELSE IF ins.ok THEN OkRef(ins.d, None, dir_ref)
                      ELSE dir_add_entry_from(d, dir_ref, child, name,
                                              iblock + 1, checks)))
    ELSE Bind(inode_append_block(d, dir_ref, checks), LAMBDA a :
             IF a.res # "Ok" THEN Fail(a, a.ref)
             ELSE OkRef(insert_entry_to_new_block(a.d, a.ref, child, name,
                                                  a.ret),
                        None, [a.ref EXCEPT !.inode.size = @ + BLOCK_SIZE]))

\* dir_add_entry with the search for room begun at the second block
dir_add_entry_from_second(d, dir_ref, child, name, checks) ==
    dir_add_entry_from(d, dir_ref, child, name, 1, checks)

\* dir_add_entry(dir, child, name)
dir_add_entry(d, dir_ref, child, name, checks) ==
    dir_add_entry_from(d, dir_ref, child, name, 0, checks)

\* create_root_inode without the link count of the root
create_root_inode_no_links(d, checks) ==
    LET root == InodeRef(EXT4_ROOT_INO, NewInode(TRUE))
        root_self == root
    IN  Bind(dir_add_entry(d, root, root_self, ".", checks), LAMBDA r1 :
            IF r1.res # "Ok" THEN r1
            ELSE Bind(dir_add_entry(r1.d, r1.ref, root_self, "..", checks),
                      LAMBDA r2 :
                     IF r2.res # "Ok" THEN r2
                     ELSE OkRef(write_inode(r2.d, r2.ref), None, r2.ref)))

\* create_root_inode()
create_root_inode(d, checks) ==
    LET root == InodeRef(EXT4_ROOT_INO, NewInode(TRUE))
        root_self == root
    IN  Bind(dir_add_entry(d, root, root_self, ".", checks), LAMBDA r1 :
            IF r1.res # "Ok" THEN r1
            ELSE Bind(dir_add_entry(r1.d, r1.ref, root_self, "..", checks),
                      LAMBDA r2 :
                     LET root2 == [r2.ref EXCEPT !.inode.link_count = 2]
                     IN  IF r2.res # "Ok" THEN r2
                         ELSE OkRef(write_inode(r2.d, root2), None, root2)))

(* ----------------------------- operations ----------------------------- *)
Snapshot ==
    [sb |-> sb, bgs |-> bgs, inode_bitmap |-> inode_bitmap,
     block_bitmap |-> block_bitmap, itable |-> itable, blocks |-> blocks,
     dir |-> dir]

NoName == ""

\* the directory dref holds, in the blocks blks, a live entry called name
HasLiveEntry(blks, dref, name) ==
    \E i \in 1 .. Len(dref.inode.blocks) :
        LET block == blks[dref.inode.blocks[i]]
        IN  \E o \in DOMAIN block.de :
                /\ o < TailOffset
                /\ block.de[o].inode # 0
                /\ block.de[o].name = name

\* the record of a call: its arguments, its result, the state before it,
\* whether the directory held a live entry of its name before it, the run of
\* create_inode and inode_append_block calls on one inode it continues (the
\* inode and the state before its create_inode), the call before it and the
\* call before that
Call(op, id, is_dir, pblock, name, r) ==
    [op |-> op, id |-> id, is_dir |-> is_dir, pblock |-> pblock,
     name |-> name, res |-> r.res, ret |-> r.ret, pre |-> Snapshot,
     live |-> HasLiveEntry(blocks, dir, name),
     iblock |-> IF "iblock" \in DOMAIN r THEN r.iblock ELSE None,
     run |-> IF op = "create_inode" /\ r.res = "Ok"
             THEN [id |-> r.ret, base |-> Snapshot, n |-> 0]
             ELSE IF op = "inode_append_block" /\ r.res = "Ok"
                     /\ last.run.id = id
             THEN [last.run EXCEPT !.n = @ + 1]
             ELSE [id |-> 0, base |-> Snapshot, n |-> 0],
     prev |-> [op |-> last.op, id |-> last.id, name |-> last.name,
               res |-> last.res, ret |-> last.ret, live |-> last.live,
               prev |-> [op |-> last.prev.op, name |-> last.prev.name,
                         res |-> last.prev.res, live |-> last.prev.live]]]

\* the disk after the operation, its writes and its result
Commit(r, call, dir_ref) ==
    /\ sb' = r.d.sb
    /\ bgs' = r.d.bgs
    /\ inode_bitmap' = r.d.inode_bitmap
    /\ block_bitmap' = r.d.block_bitmap
    /\ itable' = r.d.itable
    /\ blocks' = r.d.blocks
    /\ wlog' = r.d.wlog
    /\ bg_reads' = r.d.bg_reads
    /\ dir' = dir_ref
    /\ last' = call
    /\ nops' = nops + 1
    /\ halted' = (r.res \in {"panic", "hang"})

Ready == nops < MaxOps /\ ~halted

CreateInode ==
    /\ Ready
    /\ \E is_dir \in BOOLEAN :
         \E r \in {create_inode(Disk, is_dir, checks) : checks \in BOOLEAN} :
             Commit(r, Call("create_inode", 0, is_dir, None, NoName, r), dir)

FreeInode ==
    /\ Ready
    /\ \E id \in SlotInodeIds :
         /\ id \in InodeIds \/ itable[id].mode # "none"
         /\ \E r \in {free_inode(Disk, InodeRef(id, itable[id]), checks) :
                          checks \in BOOLEAN} :
                Commit(r, Call("free_inode", id, itable[id].mode = "dir",
                               None, NoName, r), dir)

\* one owner inode per group: only the owner's group matters to the allocator
OwnerIds == {g * InodesPerGroup + 1 : g \in Groups}

AllocBlock ==
    /\ Ready
    /\ \E owner \in OwnerIds :
         \E r \in {alloc_block(Disk, InodeRef(owner, itable[owner]), checks) :
                      checks \in BOOLEAN} :
             Commit(r, Call("alloc_block", owner, FALSE, None, NoName, r), dir)

DeallocBlock ==
    /\ Ready
    /\ \E owner \in OwnerIds, pblock \in PBlockIds :
         \E r \in {dealloc_block(Disk, InodeRef(owner, itable[owner]), pblock,
                                  checks) : checks \in BOOLEAN} :
             Commit(r, Call("dealloc_block", owner, FALSE, pblock, NoName, r),
                    dir)

FileReady == nops < MaxFileOps /\ ~halted

CreateFileInode ==
    /\ FileReady
    /\ \E is_dir \in BOOLEAN :
         \E r \in {create_inode(Disk, is_dir, checks) : checks \in BOOLEAN} :
             Commit(r, Call("create_inode", 0, is_dir, None, NoName, r), dir)

InodeAppendBlock ==
    /\ FileReady
    /\ \E id \in InodeIds :
         /\ itable[id].mode # "none"
         /\ \E r \in {inode_append_block(Disk, InodeRef(id, itable[id]),
                                         checks) : checks \in BOOLEAN} :
                Commit(r, Call("inode_append_block", id,
                               itable[id].mode = "dir", None, NoName, r), dir)

FreeFileInode ==
    /\ FileReady
    /\ \E id \in InodeIds :
         /\ itable[id].mode # "none"
         /\ \E r \in {free_inode(Disk, InodeRef(id, itable[id]), checks) :
                          checks \in BOOLEAN} :
                Commit(r, Call("free_inode", id, itable[id].mode = "dir",
                               None, NoName, r), dir)

\* dealloc_block called for a live inode on any block of the device
DeallocFileBlock ==
    /\ FileReady
    /\ \E id \in InodeIds, pblock \in PBlockIds :
         /\ itable[id].mode # "none"
         /\ \E r \in {dealloc_block(Disk, InodeRef(id, itable[id]), pblock,
                                      checks) : checks \in BOOLEAN} :
                Commit(r, Call("dealloc_block", id, FALSE, pblock, NoName, r),
                       dir)

\* the names and the child inodes the directory operations are called with
Names == {"a", "bbbbb"}
Children == {EXT4_ROOT_INO + 1, EXT4_ROOT_INO + 2}

DirReady == nops < MaxDirOps /\ ~halted

CreateRootInode ==
    /\ DirReady
    /\ dir.id = 0
    /\ \E r \in {create_root_inode(Disk, checks) : checks \in BOOLEAN} :
         Commit(r, Call("create_root_inode", 0, TRUE, None, NoName, r),
                IF r.res = "Ok" THEN r.ref ELSE dir)

DirAddEntry ==
    /\ DirReady
    /\ dir.id # 0
    /\ \E child \in Children, name \in Names :
         \E r \in {dir_add_entry(Disk, dir, InodeRef(child, itable[child]),
                                  name, checks) : checks \in BOOLEAN} :
             Commit(r, Call("dir_add_entry", child, FALSE, None, name, r),
                    r.ref)

DirRemoveEntry ==
    /\ DirReady
    /\ dir.id # 0
    /\ \E name \in Names :
         LET r == dir_remove_entry(Disk, dir, name)
         IN  Commit(r, Call("dir_remove_entry", 0, FALSE, None, name, r), dir)

DirFindEntry ==
    /\ DirReady
    /\ dir.id # 0
    /\ \E name \in Names :
         LET r == dir_find_entry(Disk, dir, name)
         IN  Commit(r, Call("dir_find_entry", 0, FALSE, None, name, r), dir)

DirGetAllEntries ==
    /\ DirReady
    /\ dir.id # 0
    /\ LET r == dir_get_all_entries(Disk, dir)
       IN  Commit(r, Call("dir_get_all_entries", 0, FALSE, None, NoName, r),
                  dir)

(* ------------------------------ initial ------------------------------- *)
FullInodes == 0 .. (InodesPerGroup - 1)
FullBlocks == 0 .. (BlocksPerGroup - 1)

SetMax(S) == CHOOSE m \in S : \A x \in S : x <= m

\* the directories among the inodes allocated at the start: the root alone
InitDirs(bgid, ibits) ==
    {k \in ibits : bgid * InodesPerGroup + k + 1 = EXT4_ROOT_INO}

\* a descriptor consistent with the group's bitmaps
InitDesc(bgid, ibits, bbits) ==
    [free_inodes_count |-> InodesPerGroup - Cardinality(ibits),
     free_blocks_count |-> BlocksPerGroup - Cardinality(bbits),
     used_dirs_count |-> Cardinality(InitDirs(bgid, ibits)),
     itable_unused |-> IF ibits = {} THEN InodesPerGroup
                       ELSE InodesPerGroup - (SetMax(ibits) + 1),
     inode_bitmap_csum |-> ibits,
     block_bitmap_csum |-> bbits]

\* the bytes after the last descriptor of the table, read as a descriptor
SlotDesc(free) ==
    [free_inodes_count |-> free, free_blocks_count |-> 0,
     used_dirs_count |-> 0, itable_unused |-> 0,
     inode_bitmap_csum |-> {}, block_bitmap_csum |-> {}]

RECURSIVE Sum(_, _)
Sum(f, S) ==
    IF S = {} THEN 0
    ELSE LET x == CHOOSE y \in S : TRUE IN f[x] + Sum(f, S \ {x})

NoDir == InodeRef(0, ZeroInode)
NoCall == [op |-> "none", id |-> 0, is_dir |-> FALSE, pblock |-> None,
           name |-> NoName, res |-> "Ok", ret |-> None, live |-> FALSE,
           iblock |-> None, run |-> [id |-> 0, n |-> 0],
           prev |-> [op |-> "none", name |-> NoName, res |-> "Ok",
                     ret |-> None, live |-> FALSE]]

\* a consistent file system with the given bitmaps
InitFs(ibm, bbm, slot_free) ==
    /\ inode_bitmap = [g \in Slots |-> IF g \in Groups THEN ibm[g] ELSE {}]
    /\ block_bitmap = [g \in Slots |-> IF g \in Groups THEN bbm[g] ELSE {}]
    /\ bgs = [g \in Slots |-> IF g \in Groups
                              THEN InitDesc(g, ibm[g], bbm[g])
                              ELSE SlotDesc(slot_free)]
    /\ sb = [free_inodes_count |->
                 Sum([g \in Groups |-> InodesPerGroup - Cardinality(ibm[g])],
                     Groups),
             free_blocks_count |->
                 Sum([g \in Groups |-> BlocksPerGroup - Cardinality(bbm[g])],
                     Groups)]
    /\ itable = [id \in SlotInodeIds |->
                   IF id \in InodeIds
                      /\ ((id - 1) % InodesPerGroup) \in ibm[bgid_of(id)]
                   THEN NewInode(id = EXT4_ROOT_INO)
                   ELSE ZeroInode]
    /\ blocks = [p \in PBlockIds |-> ZeroBlock]
    /\ wlog = <<>>
    /\ bg_reads = {}
    /\ dir = NoDir
    /\ last = NoCall
    /\ nops = 0
    /\ halted = FALSE

\* every group but group 0 is empty, or every one is full
Others(bits0, full, all) ==
    [g \in Groups |-> IF g = 0 THEN bits0 ELSE IF full THEN all ELSE {}]

\* any inode allocation in group 0 over empty block bitmaps, or any block
\* allocation in group 0 over empty inode bitmaps
InitAlloc ==
    \/ \E bits0 \in SUBSET FullInodes, full \in BOOLEAN, slot_free \in {0, 1} :
         InitFs(Others(bits0, full, FullInodes), Others({}, FALSE, {}),
                slot_free)
    \/ \E bits0 \in SUBSET FullBlocks, full \in BOOLEAN :
         InitFs(Others({}, FALSE, {}), Others(bits0, full, FullBlocks), 0)

\* every inode allocated, the blocks of group 0 in any allocation, no root
\* directory yet
InitDir ==
    \E bits0 \in SUBSET FullBlocks :
        InitFs([g \in Groups |-> FullInodes], Others(bits0, FALSE, {}), 0)

NextAlloc == CreateInode \/ FreeInode \/ AllocBlock \/ DeallocBlock

SpecAlloc == InitAlloc /\ [][NextAlloc]_vars

\* the inodes of group 0 and its blocks in any allocation, the other groups
\* empty
InitFile ==
    \E ibits \in SUBSET FullInodes, bbits \in SUBSET FullBlocks :
        InitFs(Others(ibits, FALSE, {}), Others(bbits, FALSE, {}), 0)

NextFile == CreateFileInode \/ InodeAppendBlock \/ FreeFileInode

SpecFile == InitFile /\ [][NextFile]_vars

\* files whose blocks are also released one by one
NextRelease ==
    CreateFileInode \/ InodeAppendBlock \/ DeallocFileBlock \/ FreeFileInode

SpecRelease == InitFile /\ [][NextRelease]_vars

\* the record lengths a damaged record of the root block is given: 0, short
\* of the tail, onto the tail and past the block
DamagedRecLens == {0, 12, 24, TailOffset, BLOCK_SIZE}

\* a root directory block with a "." record of rec_len a and a ".." record
\* of rec_len b, zero bytes behind them, and the tail
RootBlock(a, b) ==
    set_csum(
        [de |-> (0 :> DirEntry(EXT4_ROOT_INO, a, ".", 2))
                @@ (12 :> DirEntry(EXT4_ROOT_INO, b, "..", 2))
                @@ (TailOffset :> NewTail),
         csum |-> <<>>],
        EXT4_ROOT_INO)

RootInode ==
    [mode |-> "dir", block_count |-> 1, size |-> BLOCK_SIZE, link_count |-> 2,
     blocks |-> <<0>>]

\* a file system read from a device whose root directory block is damaged in
\* the rec_len of "." or of "..": every inode allocated, the root's block 0
\* allocated, the other blocks of group 0 in any allocation.  One operation
\* is made on it.
InitDamaged ==
    \E a \in DamagedRecLens, b \in DamagedRecLens,
       bbits \in SUBSET (FullBlocks \ {0}) :
        /\ (a = 12) # (b = TailOffset - 12)
        /\ inode_bitmap = [g \in Slots |-> IF g \in Groups THEN FullInodes
                                           ELSE {}]
        /\ block_bitmap = [g \in Slots |-> IF g = 0 THEN {0} \cup bbits
                                           ELSE {}]
        /\ bgs = [g \in Slots |->
                    IF g \in Groups
                    THEN InitDesc(g, FullInodes,
                                  IF g = 0 THEN {0} \cup bbits ELSE {})
                    ELSE SlotDesc(0)]
        /\ sb = [free_inodes_count |-> 0,
                 free_blocks_count |-> BlockGroupCount * BlocksPerGroup
                                           - Cardinality({0} \cup bbits)]
        /\ itable = [id \in SlotInodeIds |->
                       IF id = EXT4_ROOT_INO THEN RootInode
                       ELSE IF id \in InodeIds THEN NewInode(FALSE)
                       ELSE ZeroInode]
        /\ blocks = [p \in PBlockIds |-> IF p = 0 THEN RootBlock(a, b)
                                          ELSE ZeroBlock]
        /\ wlog = <<>>
        /\ bg_reads = {}
        /\ dir = InodeRef(EXT4_ROOT_INO, RootInode)
        /\ last = NoCall
        /\ nops = MaxDirOps - 1
        /\ halted = FALSE

NextDamaged ==
    DirAddEntry \/ DirRemoveEntry \/ DirFindEntry \/ DirGetAllEntries

SpecDamaged == InitDamaged /\ [][NextDamaged]_vars

NextDir == CreateRootInode \/ DirAddEntry \/ DirRemoveEntry \/ DirFindEntry

SpecDir == InitDir /\ [][NextDir]_vars

\* the directory operations with the listing of the entries among them
NextWalk ==
    \/ CreateRootInode
    \/ DirAddEntry
    \/ DirRemoveEntry
    \/ DirFindEntry
    \/ DirGetAllEntries

SpecWalk == InitDir /\ [][NextWalk]_vars

(* ======================= allocator: the claims ======================== *)
GroupFreeInodes == Sum([g \in Groups |-> bgs[g].free_inodes_count], Groups)
GroupFreeBlocks == Sum([g \in Groups |-> bgs[g].free_blocks_count], Groups)

Completed == last.op # "none" /\ last.res \notin {"panic", "hang"}

\* C1: after every completed create_inode / free_inode (alloc_inode,
\* dealloc_inode), the superblock free_inodes_count equals the sum of the
\* groups' free_inodes_count.
C1_SbFreeInodesIsSum ==
    Completed => sb.free_inodes_count = GroupFreeInodes

\* C2: after every completed alloc_block or dealloc_block, the superblock
\* free_blocks_count equals the sum of the groups' free_blocks_count.
C2_SbFreeBlocksIsSum ==
    Completed => sb.free_blocks_count = GroupFreeBlocks

C2_Witness ==
    /\ last.op = "dealloc_block" /\ last.res = "Ok"
    /\ nops = 2
    /\ sb.free_blocks_count # last.pre.sb.free_blocks_count
    /\ sb.free_blocks_count = GroupFreeBlocks

\* C3: after every completed allocator operation, in every group the set
\* bits of the inode bitmap plus free_inodes_count make the inode capacity
\* and the set bits of the block bitmap plus free_blocks_count make the
\* block capacity.
C3_PopcountPlusFree ==
    Completed =>
        \A g \in Groups :
            /\ Cardinality(inode_bitmap[g]) + bgs[g].free_inodes_count
                   = inode_count_in_group(g)
            /\ Cardinality(block_bitmap[g]) + bgs[g].free_blocks_count
                   = BlocksPerGroup

C3_Witness ==
    /\ last.op = "free_inode" /\ last.res = "Ok"
    /\ nops = 2
    /\ \E g \in Groups :
         /\ inode_bitmap[g] # last.pre.inode_bitmap[g]
         /\ block_bitmap[g] # {}
         /\ block_bitmap[g] # FullBlocks

InodeCounters(b, s, g) ==
    <<b[g].free_inodes_count, b[g].used_dirs_count, b[g].itable_unused,
      s.free_inodes_count>>

\* C4: alloc_inode followed by dealloc_inode on the returned id restores the
\* group's free_inodes_count, used_dirs_count and itable_unused and the
\* superblock's free_inodes_count.
C4_AllocDeallocRestores ==
    [][ ( /\ last.op = "create_inode" /\ last.res = "Ok"
          /\ last'.op = "free_inode" /\ last'.res = "Ok"
          /\ last'.id = last.ret )
        => InodeCounters(bgs', sb', bgid_of(last.ret))
               = InodeCounters(last.pre.bgs, last.pre.sb, bgid_of(last.ret))
      ]_vars

AllocatorOps == {"create_inode", "free_inode", "alloc_block", "dealloc_block"}

\* the writes of the allocator's structures, in the order issued
RECURSIVE MetaWrites(_)
MetaWrites(log) ==
    IF log = <<>> THEN <<>>
    ELSE IF Head(log) \in {"bitmap", "bg", "sb"}
         THEN <<Head(log)>> \o MetaWrites(Tail(log))
         ELSE MetaWrites(Tail(log))

\* C9: every allocator operation issues its writes in the order bitmap
\* block, group descriptor, superblock.
C9_WriteOrder ==
    (last.op \in AllocatorOps /\ last.res = "Ok")
        => MetaWrites(wlog) = <<"bitmap", "bg", "sb">>

\* C10: alloc_block returns the device-wide address of the lowest clear bit
\* of the owner's group: g * blocks_per_group + bit.
C10_AbsoluteBlockId ==
    (last.op = "alloc_block" /\ last.res = "Ok")
        => LET g == bgid_of(last.id)
           IN  last.ret = g * BlocksPerGroup
                   + first_clear_bit(last.pre.block_bitmap[g], 0, BlocksPerGroup)

(* ======================= directory: the claims ======================== *)
\* the physical blocks of the directory
DirBlocks == {dir.inode.blocks[i] : i \in 1 .. Len(dir.inode.blocks)}

\* the offset at which the walk by rec_len from offset leaves [0, B - 12),
\* None when a record on the way overlaps the next one or has rec_len 0
RECURSIVE ChainEnd(_, _)
ChainEnd(block, offset) ==
    IF offset >= TailOffset THEN offset
    ELSE IF offset \notin DOMAIN block.de THEN None
    ELSE IF block.de[offset].rec_len < 8 + align4(Len(block.de[offset].name))
    THEN None
    ELSE ChainEnd(block, offset + block.de[offset].rec_len)

\* every record written below the tail is one the walk from offset visits
RECURSIVE OnChain(_, _, _)
OnChain(block, offset, o) ==
    /\ offset < TailOffset
    /\ offset \in DOMAIN block.de
    /\ \/ o = offset
       \/ /\ block.de[offset].rec_len > 0
          /\ OnChain(block, offset + block.de[offset].rec_len, o)

WellFormedBlock(block) ==
    /\ ChainEnd(block, 0) = TailOffset
    /\ \A o \in DOMAIN block.de : o < TailOffset => OnChain(block, 0, o)
    /\ TailOffset \in DOMAIN block.de
    /\ block.de[TailOffset].rec_len = 12
    /\ block.de[TailOffset].file_type = 222

DirCompleted ==
    /\ last.op \in {"create_root_inode", "dir_add_entry", "dir_remove_entry"}
    /\ last.res \notin {"panic", "hang"}

\* C5 as written: dir_add_entry(dir, child, name) followed by
\* dir_find_entry(dir, name) returns an entry whose inode number is child.id,
\* in any directory state.
C5_AddThenFind_Original ==
    [][ ( /\ last.op = "dir_add_entry" /\ last.res = "Ok"
          /\ last'.op = "dir_find_entry" /\ last'.name = last.name )
        => (last'.res = "Ok" /\ last'.ret = last.id)
      ]_vars

\* C5: when the directory holds no live entry called name, dir_add_entry(dir,
\* child, name) followed by dir_find_entry(dir, name) returns an entry whose
\* inode number is child.id.
C5_AddThenFind ==
    [][ ( /\ last.op = "dir_add_entry" /\ last.res = "Ok" /\ ~last.live
          /\ last'.op = "dir_find_entry" /\ last'.name = last.name )
        => (last'.res = "Ok" /\ last'.ret = last.id)
      ]_vars

\* an add into a directory with a tombstone of the same name, then the find
C5_Witness ==
    /\ last.op = "dir_find_entry" /\ last.res = "Ok"
    /\ last.prev.op = "dir_add_entry" /\ last.prev.res = "Ok"
    /\ last.prev.name = last.name /\ ~last.prev.live
    /\ last.ret = last.prev.id
    /\ \E p \in DirBlocks : \E o \in DOMAIN blocks[p].de :
         /\ o < TailOffset
         /\ blocks[p].de[o].inode = 0
         /\ blocks[p].de[o].name = last.name

\* C6 as written: dir_add_entry(dir, child, name), dir_remove_entry(dir,
\* name) and then dir_find_entry(dir, name) fails with ENOENT, in any
\* directory state.
C6_AddRemoveFind_Original ==
    [][ ( /\ last.op = "dir_remove_entry" /\ last.res = "Ok"
          /\ last.prev.op = "dir_add_entry" /\ last.prev.res = "Ok"
          /\ last.prev.name = last.name
          /\ last'.op = "dir_find_entry" /\ last'.name = last.name )
        => last'.res = "ENOENT"
      ]_vars

\* C6: when the directory holds no live entry called name, dir_add_entry(dir,
\* child, name), dir_remove_entry(dir, name) and then dir_find_entry(dir,
\* name) fails with ENOENT.
C6_AddRemoveFind ==
    [][ ( /\ last.op = "dir_remove_entry" /\ last.res = "Ok"
          /\ last.prev.op = "dir_add_entry" /\ last.prev.res = "Ok"
          /\ last.prev.name = last.name /\ ~last.prev.live
          /\ last'.op = "dir_find_entry" /\ last'.name = last.name )
        => last'.res = "ENOENT"
      ]_vars

\* the find after an add and a remove of one name, in a two-block directory
C6_Witness ==
    /\ last.op = "dir_find_entry" /\ last.res = "ENOENT"
    /\ last.prev.op = "dir_remove_entry" /\ last.prev.res = "Ok"
    /\ last.prev.name = last.name
    /\ last.prev.prev.op = "dir_add_entry" /\ last.prev.prev.res = "Ok"
    /\ last.prev.prev.name = last.name /\ ~last.prev.prev.live
    /\ last.pre.dir.inode.block_count = 2

\* C7: after any sequence of create_root_inode, dir_add_entry and
\* dir_remove_entry, every data block of the directory has an entry chain
\* that, walked by rec_len from offset 0, ends exactly at B - 12 with no gap
\* or overlap, followed by a tail with rec_len 12 and magic 0xDE.
C7_ChainFillsBlock ==
    DirCompleted =>
        \A p \in DirBlocks :
            /\ WellFormedBlock(blocks[p])
            /\ Ext4DirEntryTail_from(blocks[p]) = TailOffset

\* two blocks, the second split, a tombstone in the directory
C7_Witness ==
    /\ last.op = "dir_add_entry" /\ last.res = "Ok"
    /\ dir.inode.block_count = 2
    /\ \A p \in DirBlocks : Cardinality(DOMAIN blocks[p].de) >= 3
    /\ \E p \in DirBlocks : \E o \in DOMAIN blocks[p].de :
         o < TailOffset /\ blocks[p].de[o].inode = 0

\* C8: after every completed dir_add_entry and dir_remove_entry, the tail
\* checksum stored in each directory block equals the keyed checksum of the
\* block's current contents.
C8_TailCsumFresh ==
    (last.op \in {"dir_add_entry", "dir_remove_entry"} /\ last.res = "Ok")
        => \A p \in DirBlocks : blocks[p].csum = dir_csum(dir.id, blocks[p])

(* ================== allocator: scan, errors, frame ==================== *)
\* the groups that had a free inode before the last call
GroupsWithFreeInode == {g \in Groups : last.pre.bgs[g].free_inodes_count # 0}

\* the lowest element of a non-empty set of naturals
Lowest(S) == CHOOSE m \in S : \A x \in S : m <= x

\* C11: alloc_inode scans groups from 0 upward, skips groups whose
\* free_inodes_count is 0, and in the first remaining group sets the
\* lowest-index clear bit of the inode bitmap and returns
\* bgid * inodes_per_group + bit_index + 1.
C11_FirstGroupLowestBit ==
    (last.op = "create_inode" /\ Completed /\ GroupsWithFreeInode # {})
        => LET g == Lowest(GroupsWithFreeInode)
               clear == (0 .. (InodesPerGroup - 1)) \ last.pre.inode_bitmap[g]
           IN  /\ clear # {}
               /\ last.res = "Ok"
               /\ last.ret = g * InodesPerGroup + Lowest(clear) + 1
               /\ inode_bitmap[g] = last.pre.inode_bitmap[g] \cup {Lowest(clear)}
               /\ \A h \in Slots \ {g} :
                      inode_bitmap[h] = last.pre.inode_bitmap[h]
               /\ bg_reads = 0 .. g

\* group 0 was skipped and the bit found is not the first of its group
C11_Witness ==
    /\ last.op = "create_inode" /\ last.res = "Ok"
    /\ last.pre.bgs[0].free_inodes_count = 0
    /\ bgid_of(last.ret) = 1
    /\ (last.ret - 1) % InodesPerGroup >= 1

\* C12: when every group 0 .. block_group_count-1 has free_inodes_count 0,
\* alloc_inode fails with ENOSPC and leaves the bitmaps, the group
\* descriptors and the superblock unchanged.
C12_EnospcWhenAllFull ==
    (last.op = "create_inode" /\ GroupsWithFreeInode = {})
        => /\ last.res = "ENOSPC"
           /\ sb = last.pre.sb
           /\ \A g \in Groups :
                  /\ bgs[g] = last.pre.bgs[g]
                  /\ inode_bitmap[g] = last.pre.inode_bitmap[g]
                  /\ block_bitmap[g] = last.pre.block_bitmap[g]

\* the last call failed with EINVAL, wrote nothing and changed nothing
RejectedUnchanged ==
    /\ last.res = "EINVAL"
    /\ wlog = <<>>
    /\ sb = last.pre.sb
    /\ bgs = last.pre.bgs
    /\ inode_bitmap = last.pre.inode_bitmap
    /\ block_bitmap = last.pre.block_bitmap
    /\ itable = last.pre.itable
    /\ blocks = last.pre.blocks

\* C13: dealloc_inode on an id whose inode-bitmap bit is clear and
\* dealloc_block on a block whose block-bitmap bit is clear each return
\* EINVAL and issue no write: bitmaps and counters are unchanged.
C13_DoubleFreeRejected ==
    /\ ( /\ last.op = "free_inode"
         /\ last.pre.itable[last.id].blocks = <<>>
         /\ ((last.id - 1) % InodesPerGroup)
                \notin last.pre.inode_bitmap[bgid_of(last.id)] )
       => RejectedUnchanged
    /\ ( /\ last.op = "dealloc_block"
         /\ last.pblock \notin last.pre.block_bitmap[bgid_of(last.id)] )
       => RejectedUnchanged

\* the second of two dealloc_block calls for one owner, the first successful
C13_Witness ==
    /\ last.op = "dealloc_block" /\ last.res = "EINVAL"
    /\ last.prev.op = "dealloc_block" /\ last.prev.res = "Ok"
    /\ last.prev.id = last.id
    /\ last.pblock \notin last.pre.block_bitmap[bgid_of(last.id)]

\* C14: for an inode obtained from create_inode and extended by
\* inode_append_block, free_inode reverses the allocation: its inode bitmap
\* bit and the block bitmap bits of its blocks are clear again, the group's
\* free_inodes_count, free_blocks_count and used_dirs_count and the
\* superblock's free_inodes_count and free_blocks_count have their values
\* from before create_inode, and the inode slot on disk is all zero.
C14_FreeInodeReverses ==
    [][ ( /\ last.op = "inode_append_block" /\ last.res = "Ok"
          /\ last.run.id = last.id
          /\ last'.op = "free_inode" /\ last'.res = "Ok"
          /\ last'.id = last.id )
        => LET g == bgid_of(last.id)
               base == last.run.base
           IN  /\ ((last.id - 1) % InodesPerGroup) \notin inode_bitmap'[g]
               /\ block_bitmap' = base.block_bitmap
               /\ bgs'[g].free_inodes_count = base.bgs[g].free_inodes_count
               /\ bgs'[g].free_blocks_count = base.bgs[g].free_blocks_count
               /\ bgs'[g].used_dirs_count = base.bgs[g].used_dirs_count
               /\ sb'.free_inodes_count = base.sb.free_inodes_count
               /\ sb'.free_blocks_count = base.sb.free_blocks_count
               /\ itable'[last.id] = ZeroInode
      ]_vars

(* ================= directory: bootstrap, append, find ================= *)
\* the name and inode number of every record below the tail of a block
EntriesOf(block) ==
    {<<block.de[o].name, block.de[o].inode>> :
         o \in {x \in DOMAIN block.de : x < TailOffset}}

\* C15: on a fresh file system create_root_inode produces inode 2 with link
\* count 2, block_count 1 and size B, whose single data block is newly
\* allocated and holds exactly the entries "." and "..", both with inode
\* number 2.
C15_RootBootstrap ==
    /\ ( /\ last.op = "create_root_inode"
         /\ last.pre.block_bitmap[0] # FullBlocks )
       => last.res = "Ok"
    /\ (last.op = "create_root_inode" /\ last.res = "Ok")
       => /\ dir.id = 2
          /\ dir.inode.link_count = 2
          /\ dir.inode.block_count = 1
          /\ dir.inode.size = BLOCK_SIZE
          /\ itable[2] = dir.inode
          /\ Len(dir.inode.blocks) = 1
          /\ LET p == dir.inode.blocks[1]
             IN  /\ p \notin last.pre.block_bitmap[0]
                 /\ p \in block_bitmap[0]
                 /\ Cardinality({x \in DOMAIN blocks[p].de : x < TailOffset})
                        = 2
                 /\ EntriesOf(blocks[p]) = {<<".", 2>>, <<"..", 2>>}

\* the root made on a file system whose block 0 was in use
C15_Witness ==
    /\ last.op = "create_root_inode" /\ last.res = "Ok"
    /\ 0 \in last.pre.block_bitmap[0]
    /\ dir.inode.blocks = <<1>>
    /\ EntriesOf(blocks[1]) = {<<".", 2>>, <<"..", 2>>}

\* a record of a block of the directory, before the last call, had room
\* for an entry of the name of the call behind its own bytes
HadSlack ==
    \E i \in 1 .. Len(last.pre.dir.inode.blocks) :
        LET block == last.pre.blocks[last.pre.dir.inode.blocks[i]]
        IN  \E o \in DOMAIN block.de :
                block.de[o].rec_len - (8 + align4(Len(block.de[o].name)))
                    >= 8 + align4(Len(last.name))

\* C16: dir_add_entry appends a block only when no entry of an existing
\* block has enough slack; it then appends exactly one data block
\* (block_count + 1, size + B) and the new block holds exactly one entry,
\* with rec_len B - 12, followed by a fresh tail.
C16_AppendOnlyWhenFull ==
    (last.op = "dir_add_entry" /\ last.res = "Ok")
        => LET old == last.pre.dir.inode
               new == dir.inode
           IN  IF HadSlack
               THEN /\ new.block_count = old.block_count
                    /\ new.size = old.size
                    /\ new.blocks = old.blocks
               ELSE /\ new.block_count = old.block_count + 1
                    /\ new.size = old.size + BLOCK_SIZE
                    /\ Len(new.blocks) = Len(old.blocks) + 1
                    /\ SubSeq(new.blocks, 1, Len(old.blocks)) = old.blocks
                    /\ LET p == new.blocks[Len(new.blocks)]
                       IN  /\ \A i \in 1 .. Len(old.blocks) : old.blocks[i] # p
                           /\ DOMAIN blocks[p].de = {0, TailOffset}
                           /\ blocks[p].de[0].rec_len = BLOCK_SIZE - 12
                           /\ blocks[p].de[0].name = last.name
                           /\ blocks[p].de[0].inode = last.id
                           /\ blocks[p].de[TailOffset].rec_len = 12
                           /\ blocks[p].de[TailOffset].file_type = 222
                           /\ blocks[p].de[TailOffset].inode = 0
                           /\ blocks[p].csum = dir_csum(dir.id, blocks[p])

\* the add that overflows the first block, a tombstone in it
C16_Witness ==
    /\ last.op = "dir_add_entry" /\ last.res = "Ok"
    /\ last.pre.dir.inode.block_count = 1
    /\ dir.inode.block_count = 2
    /\ \E o \in DOMAIN blocks[dir.inode.blocks[1]].de :
         o < TailOffset /\ blocks[dir.inode.blocks[1]].de[o].inode = 0

\* the places <<logical block, offset>> of the live entries of the directory
\* called name
LiveMatches(name) ==
    {m \in (1 .. Len(dir.inode.blocks)) \X (0 .. (TailOffset - 1)) :
         LET block == blocks[dir.inode.blocks[m[1]]]
         IN  /\ m[2] \in DOMAIN block.de
             /\ block.de[m[2]].inode # 0
             /\ block.de[m[2]].name = name}

\* the first place of a set of places, in block order and then offset order
FirstPlace(M) ==
    CHOOSE m \in M :
        \A n \in M : m[1] < n[1] \/ (m[1] = n[1] /\ m[2] <= n[2])

\* C17: dir_find_entry returns the first entry, in logical block order and
\* offset order, whose inode is not 0 and whose name is the requested one;
\* it never returns a tombstone and fails with ENOENT when there is none.
C17_FindFirstLive ==
    (last.op = "dir_find_entry" /\ last.res \notin {"panic", "hang"})
        => IF LiveMatches(last.name) = {}
           THEN last.res = "ENOENT"
           ELSE LET m == FirstPlace(LiveMatches(last.name))
                IN  /\ last.res = "Ok"
                    /\ last.ret # 0
                    /\ last.ret = blocks[dir.inode.blocks[m[1]]].de[m[2]].inode

\* a find that passes a tombstone of the name in the first block and ends in
\* the second
C17_Witness ==
    /\ last.op = "dir_find_entry" /\ last.res = "Ok"
    /\ LiveMatches(last.name) # {}
    /\ FirstPlace(LiveMatches(last.name))[1] = 2
    /\ \E o \in DOMAIN blocks[dir.inode.blocks[1]].de :
         /\ o < TailOffset
         /\ blocks[dir.inode.blocks[1]].de[o].inode = 0
         /\ blocks[dir.inode.blocks[1]].de[o].name = last.name

(* ======================== allocator: the hint ========================= *)
\* C18: under any sequence of alloc_inode and dealloc_inode, in every group
\* every inode index >= capacity - itable_unused has a clear bit in the
\* inode bitmap, and itable_unused never exceeds the capacity.
C18_ItableUnusedSafe ==
    (last.op \in {"create_inode", "free_inode"} /\ Completed)
        => \A g \in Groups :
               /\ bgs[g].itable_unused >= 0
               /\ bgs[g].itable_unused <= inode_count_in_group(g)
               /\ \A k \in 0 .. (inode_count_in_group(g) - 1) :
                      k >= inode_count_in_group(g) - bgs[g].itable_unused
                          => k \notin inode_bitmap[g]

(* ===================== directory: damaged blocks ====================== *)
DirOps ==
    {"dir_find_entry", "dir_remove_entry", "dir_get_all_entries",
     "dir_add_entry"}

\* C19: when dir_find_entry, dir_remove_entry, dir_get_all_entries or
\* dir_add_entry reads a directory block whose entry chain does not sum to
\* B - 12, the operation returns EFSCORRUPTED.
C19_DamageDetected ==
    ( /\ last.op \in DirOps
      /\ last.pre.dir.inode.block_count >= 1
      /\ ChainEnd(last.pre.blocks[last.pre.dir.inode.blocks[1]], 0)
             # TailOffset )
        => last.res = "EFSCORRUPTED"

(* ================== allocator: no spill of blocks ===================== *)
\* C20: alloc_block for an owner inode in group g changes only group g's
\* block bitmap, group g's descriptor and the superblock; every other group,
\* the inode bitmaps and the inode table (the owner's block_count with it)
\* are unchanged; when group g's bitmap has no clear bit the call returns
\* ENOSPC with no write, whatever the other groups have free.
C20_NoSpill ==
    last.op = "alloc_block" =>
        LET g == bgid_of(last.id)
        IN  /\ \A h \in Slots \ {g} :
                   /\ block_bitmap[h] = last.pre.block_bitmap[h]
                   /\ bgs[h] = last.pre.bgs[h]
            /\ inode_bitmap = last.pre.inode_bitmap
            /\ itable = last.pre.itable
            /\ blocks = last.pre.blocks
            /\ sb.free_inodes_count = last.pre.sb.free_inodes_count
            /\ \A i \in 1 .. Len(wlog) : wlog[i] \in {"bitmap", "sb", "bg"}
            /\ last.res = "Ok" =>
                   /\ last.ret \notin last.pre.block_bitmap[g]
                   /\ block_bitmap[g] = last.pre.block_bitmap[g] \cup {last.ret}
            /\ last.pre.block_bitmap[g] = FullBlocks =>
                   /\ last.res = "ENOSPC"
                   /\ wlog = <<>>
                   /\ sb = last.pre.sb
                   /\ bgs = last.pre.bgs
                   /\ block_bitmap = last.pre.block_bitmap

\* the owner's group took its last block and the next call is refused while
\* another group still has a free block
C20_Witness ==
    /\ last.op = "alloc_block" /\ last.res = "ENOSPC"
    /\ last.prev.op = "alloc_block" /\ last.prev.res = "Ok"
    /\ last.prev.id = last.id
    /\ \E h \in Groups \ {bgid_of(last.id)} : block_bitmap[h] # FullBlocks

(* ======================= files: appended blocks ======================= *)
\* C21: a successful inode_append_block returns the inode's block_count
\* before the call as logical block id, adds exactly 1 to block_count,
\* leaves size unchanged and ends by rewriting the inode on disk; the n-th
\* successful append in a row on a freshly created inode returns logical
\* block n - 1 and leaves block_count = n.
C21_AppendCounts ==
    (last.op = "inode_append_block" /\ last.res = "Ok") =>
        /\ last.iblock = last.pre.itable[last.id].block_count
        /\ itable[last.id].block_count
               = last.pre.itable[last.id].block_count + 1
        /\ itable[last.id].size = last.pre.itable[last.id].size
        /\ wlog # <<>> /\ wlog[Len(wlog)] = "inode"
        /\ last.run.id = last.id =>
               /\ last.iblock = last.run.n - 1
               /\ itable[last.id].block_count = last.run.n

\* the second append in a row on a freshly created inode
C21_Witness ==
    /\ last.op = "inode_append_block" /\ last.res = "Ok"
    /\ last.run.id = last.id
    /\ last.run.n = 2

(* ==================== directory: frame of a removal =================== *)
\* the places <<logical block, offset>> of the live entries called name in
\* the directory dref over the blocks blks
LiveMatchesIn(blks, dref, name) ==
    {m \in (1 .. Len(dref.inode.blocks)) \X (0 .. (TailOffset - 1)) :
         LET block == blks[dref.inode.blocks[m[1]]]
         IN  /\ m[2] \in DOMAIN block.de
             /\ block.de[m[2]].inode # 0
             /\ block.de[m[2]].name = name}

\* nothing but the data blocks differs from the state before the call
OnlyBlocksChanged ==
    /\ sb = last.pre.sb
    /\ bgs = last.pre.bgs
    /\ inode_bitmap = last.pre.inode_bitmap
    /\ block_bitmap = last.pre.block_bitmap
    /\ itable = last.pre.itable
    /\ dir = last.pre.dir

\* C22: dir_remove_entry sets to 0 the inode field of the first live entry
\* of the name and changes nothing else: that entry's rec_len and name, the
\* other records of the block and the other blocks are as before; with no
\* live entry of the name it returns ENOENT and writes nothing.
C22_RemoveFrame ==
    (last.op = "dir_remove_entry" /\ last.res \notin {"panic", "hang"}) =>
        LET M == LiveMatchesIn(last.pre.blocks, last.pre.dir, last.name)
        IN  /\ OnlyBlocksChanged
            /\ IF M = {}
               THEN /\ last.res = "ENOENT"
                    /\ wlog = <<>>
                    /\ blocks = last.pre.blocks
               ELSE LET m == FirstPlace(M)
                        p == last.pre.dir.inode.blocks[m[1]]
                        old == last.pre.blocks[p]
                    IN  /\ last.res = "Ok"
                        /\ wlog = <<"data">>
                        /\ blocks
                             = [last.pre.blocks EXCEPT
                                  ![p] = [old EXCEPT !.de[m[2]].inode = 0]]

\* a removal in a directory of two blocks that leaves a second live entry
\* of the same name behind
C22_Witness ==
    /\ last.op = "dir_remove_entry" /\ last.res = "Ok"
    /\ Len(dir.inode.blocks) = 2
    /\ LiveMatchesIn(blocks, dir, last.name) # {}

(* ==================== directory: first-fit split ====================== *)
\* the places <<logical block, offset>> of the records of the directory,
\* before the last call, whose slack holds an entry of the name of the call
SlackPlaces ==
    {m \in (1 .. Len(last.pre.dir.inode.blocks)) \X (0 .. (BLOCK_SIZE - 1)) :
         LET block == last.pre.blocks[last.pre.dir.inode.blocks[m[1]]]
         IN  /\ m[2] \in DOMAIN block.de
             /\ block.de[m[2]].rec_len - (8 + align4(Len(block.de[m[2]].name)))
                    >= 8 + align4(Len(last.name))}

\* C23: when a record has enough slack, dir_add_entry splits the first such
\* record in block order and then offset order: the record's rec_len becomes
\* its used size, the new entry lies right behind it with the slack as
\* rec_len, every other record and block is as before, and the directory's
\* block_count and size are unchanged.
C23_FirstFitSplit ==
    (last.op = "dir_add_entry" /\ last.res = "Ok" /\ SlackPlaces # {}) =>
        LET m == FirstPlace(SlackPlaces)
            p == last.pre.dir.inode.blocks[m[1]]
            o == m[2]
            old == last.pre.blocks[p].de
            used == 8 + align4(Len(old[o].name))
            slack == old[o].rec_len - used
        IN  /\ dir = last.pre.dir
            /\ itable = last.pre.itable
            /\ \A q \in PBlockIds \ {p} : blocks[q] = last.pre.blocks[q]
            /\ DOMAIN blocks[p].de = DOMAIN old \cup {o + used}
            /\ blocks[p].de[o] = [old[o] EXCEPT !.rec_len = used]
            /\ blocks[p].de[o + used]
                   = DirEntry(last.id, slack, last.name,
                              file_type(last.pre.itable[last.id]))
            /\ \A x \in DOMAIN old \ {o, o + used} : blocks[p].de[x] = old[x]

\* a split in the first block while the second block has room as well
C23_Witness ==
    /\ last.op = "dir_add_entry" /\ last.res = "Ok"
    /\ \E m \in SlackPlaces : m[1] = 1
    /\ \E m \in SlackPlaces : m[1] = 2

(* ===================== directory: size and blocks ===================== *)
\* C24: for a directory built by create_root_inode and changed by
\* dir_add_entry and dir_remove_entry, the directory InodeRef has
\* size = B * block_count; a removal never reduces the size.
C24_SizeIsBlocks ==
    /\ dir.inode.size = BLOCK_SIZE * dir.inode.block_count
    /\ last.op = "dir_remove_entry" => dir.inode.size = last.pre.dir.inode.size

\* a removal in a directory of two blocks
C24_Witness ==
    /\ last.op = "dir_remove_entry" /\ last.res = "Ok"
    /\ dir.id = EXT4_ROOT_INO
    /\ dir.inode.block_count = 2

(* ====================== free_inode: no rollback ======================= *)
\* the blocks the inode of the last call mapped before the call
FreedList == last.pre.itable[last.id].blocks

\* the blocks of FreedList before position i
FreedBefore(i) == {FreedList[j] : j \in 1 .. (i - 1)}

\* the positions of FreedList at which dealloc_block finds the bit of the
\* block clear, the blocks before it released
FailingAt ==
    {i \in 1 .. Len(FreedList) :
         FreedList[i] \notin (last.pre.block_bitmap[bgid_of(last.id)]
                                  \ FreedBefore(i))}

\* C25: when a dealloc_block inside free_inode fails, free_inode returns
\* that error at once and undoes nothing: the blocks released before the
\* failure stay released and zeroed, the inode's bitmap bit stays set, the
\* inode counters are as before and the inode on disk is not zeroed.
C25_NoRollback ==
    (last.op = "free_inode" /\ last.res # "panic" /\ FailingAt # {}) =>
        LET k == CHOOSE i \in FailingAt : \A j \in FailingAt : i <= j
            g == bgid_of(last.id)
        IN  /\ last.res = "EINVAL"
            /\ block_bitmap[g] = last.pre.block_bitmap[g] \ FreedBefore(k)
            /\ \A p \in FreedBefore(k) : blocks[p] = ZeroBlock
            /\ \A p \in PBlockIds \ FreedBefore(k) :
                   blocks[p] = last.pre.blocks[p]
            /\ sb.free_blocks_count = last.pre.sb.free_blocks_count + (k - 1)
            /\ bgs[g].free_blocks_count
                   = last.pre.bgs[g].free_blocks_count + (k - 1)
            /\ inode_bitmap = last.pre.inode_bitmap
            /\ sb.free_inodes_count = last.pre.sb.free_inodes_count
            /\ \A h \in Groups :
                   /\ bgs[h].free_inodes_count
                          = last.pre.bgs[h].free_inodes_count
                   /\ bgs[h].used_dirs_count = last.pre.bgs[h].used_dirs_count
                   /\ bgs[h].itable_unused = last.pre.bgs[h].itable_unused
            /\ itable = last.pre.itable

\* a free_inode that released one block and failed on the next
C25_Witness ==
    /\ last.op = "free_inode" /\ last.res = "EINVAL"
    /\ FailingAt # {}
    /\ 1 \notin FailingAt
    /\ blocks[FreedList[1]] = ZeroBlock
    /\ FreedList[1] \notin block_bitmap[bgid_of(last.id)]

(* =================== allocator: blocks held twice ===================== *)
\* C26: alloc_block never returns a block id that an earlier alloc_block
\* returned and that has not been passed to dealloc_block since, whatever
\* the groups of the owner inodes; here for two calls in a row.
C26_NoBlockHeldTwice ==
    ( /\ last.op = "alloc_block" /\ last.res = "Ok"
      /\ last.prev.op = "alloc_block" /\ last.prev.res = "Ok" )
        => last.ret # last.prev.ret

(* ===================== allocator: inode ids =========================== *)
\* C27: create_inode never returns 0 and never returns an id whose
\* inode-bitmap bit was set when it was called; the bit is set afterwards,
\* so the ids of live inodes are pairwise distinct, and two calls in a row
\* return two ids.
C27_FreshInodeId ==
    (last.op = "create_inode" /\ last.res = "Ok") =>
        LET g == bgid_of(last.ret)
            bit == (last.ret - 1) % InodesPerGroup
        IN  /\ last.ret # 0
            /\ last.ret \in SlotInodeIds
            /\ bit \notin last.pre.inode_bitmap[g]
            /\ inode_bitmap[g] = last.pre.inode_bitmap[g] \cup {bit}
            /\ \A h \in Slots \ {g} :
                   inode_bitmap[h] = last.pre.inode_bitmap[h]
            /\ (last.prev.op = "create_inode" /\ last.prev.res = "Ok")
                   => last.ret # last.prev.ret

\* two inodes created in a row, the second one behind an inode that was
\* live before both
C27_Witness ==
    /\ last.op = "create_inode" /\ last.res = "Ok"
    /\ last.prev.op = "create_inode" /\ last.prev.res = "Ok"
    /\ \E g \in Groups : Cardinality(last.pre.inode_bitmap[g]) >= 2

(* ================ allocator: descriptors that are read ================ *)
\* C28: alloc_inode reads only the group descriptors 0 .. block_group_count
\* - 1; it neither reads nor changes a descriptor at index
\* block_group_count, in particular when every group is full.
C28_ReadsOnlyGroups ==
    last.op = "create_inode" =>
        /\ bg_reads \subseteq Groups
        /\ bgs[BlockGroupCount] = last.pre.bgs[BlockGroupCount]

(* ===================== allocator: no underflow ======================== *)
\* C29: from a consistent file system no operation decrements a counter of
\* the superblock or of a group descriptor (free_inodes_count,
\* free_blocks_count, used_dirs_count) whose value is 0: no counter wraps
\* below 0.
C29_NoUnderflow ==
    /\ sb.free_inodes_count >= 0
    /\ sb.free_blocks_count >= 0
    /\ \A g \in Groups :
           /\ bgs[g].free_inodes_count >= 0
           /\ bgs[g].free_blocks_count >= 0
           /\ bgs[g].used_dirs_count >= 0

(* ================= directory: the inode on disk ======================= *)
\* C30: when dir_add_entry returns Ok after appending a block, the inode
\* record of the directory on disk carries the block_count and the size of
\* the InodeRef the caller holds.
C30_AppendOnDisk ==
    ( /\ last.op = "dir_add_entry" /\ last.res = "Ok"
      /\ dir.inode.block_count = last.pre.dir.inode.block_count + 1 )
        => /\ itable[dir.id].block_count = dir.inode.block_count
           /\ itable[dir.id].size = dir.inode.size

(* =================== directory: the walks terminate =================== *)
\* the walk by rec_len from offset, as the block walkers make it, meets only
\* records with rec_len > 0 and ends with the offset at B exactly
RECURSIVE WalkEnds(_, _)
WalkEnds(block, offset) ==
    IF offset = BLOCK_SIZE THEN TRUE
    ELSE IF offset > BLOCK_SIZE THEN FALSE
    ELSE /\ read_offset_as(block, offset).rec_len > 0
         /\ WalkEnds(block, offset + read_offset_as(block, offset).rec_len)

\* C31: on every block of a directory built by create_root_inode,
\* dir_add_entry and dir_remove_entry the entry walks of dir_find_entry,
\* dir_remove_entry, dir_get_all_entries and dir_add_entry terminate: every
\* record visited, the tail included, has rec_len > 0 and the offset reaches
\* B exactly.
C31_WalksTerminate ==
    /\ last.res # "hang"
    /\ \A i \in 1 .. Len(dir.inode.blocks) :
           WalkEnds(blocks[dir.inode.blocks[i]], 0)

\* the entries of a directory of two blocks listed, a tombstone among its
\* records
C31_Witness ==
    /\ last.op = "dir_get_all_entries" /\ last.res = "Ok"
    /\ Len(dir.inode.blocks) = 2
    /\ \E i \in 1 .. 2 : \E o \in DOMAIN blocks[dir.inode.blocks[i]].de :
           /\ o < TailOffset
           /\ blocks[dir.inode.blocks[i]].de[o].inode = 0

(* ================= directory: space of removed entries ================ *)
\* C32: the record of a removed entry is reclaimed by a later add of a name
\* of the same length: in a directory whose blocks are otherwise full,
\* dir_remove_entry(name) followed by dir_add_entry(name) takes the record
\* of the tombstone and leaves block_count as it was, so repeating the pair
\* keeps block_count bounded.
C32_TombstoneReused ==
    ( /\ last.op = "dir_add_entry" /\ last.res = "Ok"
      /\ last.prev.op = "dir_remove_entry" /\ last.prev.res = "Ok"
      /\ last.prev.name = last.name
      /\ SlackPlaces = {} )
        => dir.inode.block_count = last.pre.dir.inode.block_count

====
